---- MODULE Spec2Model ----
(***************************************************************************)
(* State machine of streamdeck_ui/api.py: the configuration tree `state`,  *)
(* the device registry `decks`, the animation cache `image_cache`, the     *)
(* lock shared by render() and render_thread(), and the persisted state    *)
(* file.  One action per API function, callback or ticker iteration; a     *)
(* handler runs to its return, to the exception that leaves it, or to the  *)
(* lock.acquire() it can never pass.                                       *)
(*                                                                         *)
(* Python values:                                                          *)
(*   dict iterated by the code  -> sequence of <<key, value>> pairs in     *)
(*                                 insertion order (DHas/DGet/DPut)        *)
(*   dict.get(k, default) on a  -> record whose fields are None (key       *)
(*   settings dict                 absent) or Some(v)                      *)
(*   image_cache key f"{deck_id}.{page}.{button_id}" -> <<deck_id, page,   *)
(*                                 button_id>> (page and button are ints,  *)
(*                                 so the formatted key splits back into   *)
(*                                 exactly these three parts)              *)
(***************************************************************************)
EXTENDS Integers, Sequences, FiniteSets, TLC

VARIABLES
  state,        \* api.py:23  configuration tree
  decks,        \* api.py:22  registry: serial -> handle
  image_cache,  \* api.py:21  key -> [image, fps, next_time, frame]
  lock,         \* api.py:28  "free", "held" by a thread that left its scan by an exception,
                \*            or the name of the thread that acquired it
  state_file,   \* content of STATE_FILE: None or Some(json document)
  now,          \* time.monotonic() in ms, as read by the last tick
  attached,     \* serials of the devices physically plugged in
  ticker,       \* render_thread: "run" or "dead"
  fg,           \* the foreground caller of the API: "ready" or "blocked"
  pushed,       \* history: set_key_image calls per key since render() last reset its entry
  op,           \* history: the last handler, the external calls it made, how it ended
  edits,        \* history: number of foreground edits made so far
  thr           \* per thread, where it stands inside a handler that runs step by step

vars == <<state, decks, image_cache, lock, state_file, now, attached, ticker, fg, pushed, op, edits,
          thr>>

-----------------------------------------------------------------------------
(* Bounds of the model *)

MaxEdits == 1
MaxTicks == 3
MaxGen == 2
MaxAnimTicks == 200

Serials == {"d1", "d2"}
Unpluggable == {"d1"}
Pages == {0, 1}
Buttons == {0, 1}
AllKeys == Serials \X Pages \X Buttons
\* The device and the key that is pressed and released
PressedDecks == {"d1"}
PressedKeys == {0}
\* The buttons the editor is used on
EditSlots == {<<"d1", 0, 0>>}
\* The device whose page and brightness the editor sets
EditDecks == {"d1"}
\* The device whose transport fails during a tick, if any
TickFaults == Serials \cup {"none"}
\* The devices whose probe raises during a reconnect
ProbeFaults == {{}, Unpluggable}

-----------------------------------------------------------------------------
(* Python values *)

None == << >>
Some(v) == <<v>>

Min(a, b) == IF a < b THEN a ELSE b
Max(a, b) == IF a > b THEN a ELSE b

DHas(d, k) == \E i \in 1..Len(d) : d[i][1] = k
DIdx(d, k) == CHOOSE i \in 1..Len(d) : d[i][1] = k
DGet(d, k, dflt) == IF DHas(d, k) THEN d[DIdx(d, k)][2] ELSE dflt
DPut(d, k, v) == IF DHas(d, k) THEN [d EXCEPT ![DIdx(d, k)] = <<k, v>>] ELSE Append(d, <<k, v>>)
DKeys(d) == {d[i][1] : i \in 1..Len(d)}

\* {} as a deck's entry of `state`, and {} as a button's settings
NoDeck == [page |-> None, brightness |-> None, buttons |-> None]
NoSettings == [text |-> None, icon |-> None, command |-> None, keys |-> None,
               write |-> None, brightness_change |-> None, switch_page |-> None]

\* settings.get(field, dflt)
Field(settings, field, dflt) == IF settings[field] = None THEN dflt ELSE settings[field][1]

-----------------------------------------------------------------------------
(* Configuration store: readers *)

\* deck_state.get("buttons", {})
ButtonsOfDeck(rec) == IF rec.buttons = None THEN << >> ELSE rec.buttons[1]

get_page(st, d) ==
  LET rec == DGet(st, d, NoDeck) IN IF rec.page = None THEN 0 ELSE rec.page[1]

get_brightness(st, d) ==
  LET rec == DGet(st, d, NoDeck) IN IF rec.brightness = None THEN 100 ELSE rec.brightness[1]

\* the tree after _button_state(deck_id, page, button): three setdefault calls
_button_state(st, d, p, b) ==
  LET s1 == IF DHas(st, d) THEN st ELSE Append(st, <<d, NoDeck>>)
      rec == DGet(s1, d, NoDeck)
      pages == ButtonsOfDeck(rec)
      pages1 == IF DHas(pages, p) THEN pages ELSE Append(pages, <<p, << >> >>)
      btns == DGet(pages1, p, << >>)
      btns1 == IF DHas(btns, b) THEN btns ELSE Append(btns, <<b, NoSettings>>)
  IN DPut(s1, d, [rec EXCEPT !.buttons = Some(DPut(pages1, p, btns1))])

\* the settings dict of a button, {} when the tree has none
Settings(st, d, p, b) ==
  DGet(DGet(ButtonsOfDeck(DGet(st, d, NoDeck)), p, << >>), b, NoSettings)

\* get_button_<field>(deck_id, page, button) without the entries
\* _button_state creates: .get(field, "") for the strings, .get(field, 0)
\* for brightness_change and switch_page
FieldNames == {"text", "icon", "command", "keys", "write", "brightness_change", "switch_page"}
get_button(st, k, field) ==
  Field(Settings(st, k[1], k[2], k[3]), field,
        IF field \in {"brightness_change", "switch_page"} THEN 0 ELSE "")

\* _button_state(deck_id, page, button)[field] = v
SetField(st, d, p, b, field, v) ==
  LET s1 == _button_state(st, d, p, b)
      rec == DGet(s1, d, NoDeck)
      pages == ButtonsOfDeck(rec)
      btns == DGet(pages, p, << >>)
      new == [DGet(btns, b, NoSettings) EXCEPT ![field] = Some(v)]
  IN DPut(s1, d, [rec EXCEPT !.buttons = Some(DPut(pages, p, DPut(btns, b, new)))])

\* state.setdefault(deck_id, {})[field] = v
SetDeckField(st, d, field, v) ==
  DPut(st, d, [DGet(st, d, NoDeck) EXCEPT ![field] = Some(v)])

-----------------------------------------------------------------------------
(* Render engine *)

\* What Image.open(icon) finds.  "pages.tif": two frames and no duration in
\* its info; a gif: frames and a per-frame duration in ms; any other path: no
\* readable image, Image.open raises.
ImageInfo(icon) ==
  CASE icon = "pages.tif" -> [ok |-> TRUE, n |-> 2, duration |-> None]
    [] icon = "fast.gif"  -> [ok |-> TRUE, n |-> 3, duration |-> Some(20)]
    [] icon = "anim.gif"  -> [ok |-> TRUE, n |-> 5, duration |-> Some(100)]
    [] OTHER              -> [ok |-> FALSE, n |-> 0, duration |-> None]

\* One native frame: what was composited (device, icon, text) and which
\* frame of the source it is.
NativeFrame(d, icon, text, i) == [deck |-> d, icon |-> icon, text |-> text, idx |-> i]

\* _render_key_image(deck, **button_settings): (icon_frames, fps), or the
\* exception of Image.open.  1000 / duration is exact for the durations above.
_render_key_image(d, settings) ==
  LET icon == Field(settings, "icon", "")
      text == Field(settings, "text", "")
      info == ImageInfo(icon)
      n == IF icon # "" THEN info.n ELSE 1
      fps == IF icon # "" /\ info.duration # None THEN 1000 \div info.duration[1] ELSE 0
  IN IF icon # "" /\ ~info.ok
       THEN [ok |-> FALSE, image |-> << >>, fps |-> 0]
       ELSE [ok |-> TRUE, image |-> [i \in 1..n |-> NativeFrame(d, icon, text, i - 1)], fps |-> fps]

\* The keys both scans visit, in the order they visit them: the decks of
\* `state` that are registered, the buttons of each one's current page.
RECURSIVE ScanKeys(_, _, _)
ScanKeys(st, dk, i) ==
  IF i > Len(st) THEN << >>
  ELSE LET d == st[i][1]
           p == get_page(st, d)
           btns == DGet(ButtonsOfDeck(st[i][2]), p, << >>)
           here == IF DHas(dk, d) THEN [j \in 1..Len(btns) |-> <<d, p, btns[j][1]>>] ELSE << >>
       IN here \o ScanKeys(st, dk, i + 1)

\* The loop of render() from button i of the scan on: the cache, the history
\* of pushes, and "ok" or "raised" (by _render_key_image).
RECURSIVE RenderScan(_, _, _, _, _)
RenderScan(keys, i, st, ic, pu) ==
  IF i > Len(keys) THEN [image_cache |-> ic, pushed |-> pu, res |-> "ok"]
  ELSE LET k == keys[i] IN
    IF ic[k] # None
      THEN RenderScan(keys, i + 1, st,
                      [ic EXCEPT ![k] = Some([@[1] EXCEPT !.next_time = 0, !.frame = 0])],
                      [pu EXCEPT ![k] = 0])
      ELSE LET r == _render_key_image(k[1], Settings(st, k[1], k[2], k[3])) IN
        IF r.ok
          THEN RenderScan(keys, i + 1, st,
                          [ic EXCEPT ![k] = Some([image |-> r.image, fps |-> r.fps,
                                                  next_time |-> 0, frame |-> 0])],
                          [pu EXCEPT ![k] = 0])
          ELSE [image_cache |-> ic, pushed |-> pu, res |-> "raised"]

\* A world: the shared data a handler works on, the external calls it has
\* made, and how it stands: "ok", "raised" (an exception is propagating) or
\* "blocked" (in lock.acquire() on a lock nobody will release).  Then(w, F)
\* is F applied to the world w a first call has left, unless that call did
\* not return (x ranges over the one world w).
Call(w, c) == [w EXCEPT !.calls = Append(@, c)]
Then(w, F(_)) == CHOOSE r \in {IF x.res = "ok" THEN F(x) ELSE x : x \in {w}} : TRUE
\* `if cond: F()` after a first call
When(cond, w, F(_)) == CHOOSE r \in {IF cond /\ x.res = "ok" THEN F(x) ELSE x : x \in {w}} : TRUE

\* render(): acquire, scan, release.  An exception inside the scan leaves
\* the function between acquire and release.
render(w) ==
  IF w.lock = "held" THEN [Call(w, <<"render">>) EXCEPT !.res = "blocked"]
  ELSE LET r == RenderScan(ScanKeys(w.state, w.decks, 1), 1, w.state, w.image_cache, w.pushed)
       IN [Call(w, <<"render">>) EXCEPT !.image_cache = r.image_cache, !.pushed = r.pushed,
                                        !.res = r.res,
                                        !.lock = IF r.res = "ok" THEN "free" ELSE "held"]

-----------------------------------------------------------------------------
(* Render scheduler *)

\* deck.set_key_image raises when the handle has lost its device, or when
\* the transport of device `bad` fails during this tick.
WriteRaises(dk, d, bad) == ~DGet(dk, d, [connected |-> FALSE]).connected \/ d = bad

\* What one iteration of the ticker does to an entry that is to be drawn
\* (api.py:299-301 and 305)
AdvanceEntry(e, t) ==
  [e EXCEPT !.next_time = IF e.fps # 0 THEN t + (1000 \div e.fps) ELSE -1,
            !.frame = (e.frame + 1) % Len(e.image)]

\* Due with > for >= in the comparison of api.py:297
DueStrictlyAfter(e, t) == (e.fps # 0 /\ t > e.next_time) \/ (e.fps = 0 /\ e.next_time = 0)

\* api.py:297 and 304: is the entry drawn at time t
Due(e, t) == (e.fps # 0 /\ t >= e.next_time) \/ (e.fps = 0 /\ e.next_time = 0)

\* The loop of render_thread() from button i of the scan on, at current_time t
RECURSIVE TickScan(_, _, _, _, _)
TickScan(keys, i, w, t, bad) ==
  IF i > Len(keys) THEN w
  ELSE LET k == keys[i]
           c == w.image_cache[k]
       IN IF c = None \/ ~Due(c[1], t) THEN TickScan(keys, i + 1, w, t, bad)
          ELSE LET e == c[1]
                   w1 == [Call(w, <<"set_key_image", k[1], k[3], e.image[e.frame + 1]>>)
                            EXCEPT !.image_cache[k] = Some(AdvanceEntry(e, t)),
                                   !.pushed[k] = @ + 1]
               IN IF WriteRaises(w.decks, k[1], bad)
                    THEN [w1 EXCEPT !.res = "raised", !.lock = "held"]
                    ELSE TickScan(keys, i + 1, w1, t, bad)

\* One iteration of render_thread() at current_time t
render_thread(w, t, bad) == TickScan(ScanKeys(w.state, w.decks, 1), 1, w, t, bad)

-----------------------------------------------------------------------------
(* Persistence *)

CONFIG_FILE_VERSION == 1

\* str(n) and int(s) on the page and button indices: json.dumps writes the
\* int keys of a dict as strings, _open_config turns them back with int().
Digits == <<"0", "1", "2", "3", "4", "5", "6", "7", "8", "9">>
IntToStr(n) == Digits[n + 1]
StrToInt(s) == (CHOOSE i \in 1..Len(Digits) : Digits[i] = s) - 1

\* json.dumps(state): the same tree with page and button keys as strings
ToJson(st) ==
  [i \in 1..Len(st) |->
     <<st[i][1],
       [st[i][2] EXCEPT !.buttons =
          IF @ = None THEN None
          ELSE Some([j \in 1..Len(@[1]) |->
                       <<IntToStr(@[1][j][1]),
                         [k \in 1..Len(@[1][j][2]) |->
                            <<IntToStr(@[1][j][2][k][1]), @[1][j][2][k][2]>>]>>])]>>]

\* api.py:79-84: every deck of the file gets a "buttons" dict with int keys
FromJson(js) ==
  [i \in 1..Len(js) |->
     <<js[i][1],
       [js[i][2] EXCEPT !.buttons =
          Some(IF @ = None THEN << >>
               ELSE [j \in 1..Len(@[1]) |->
                       <<StrToInt(@[1][j][1]),
                         [k \in 1..Len(@[1][j][2]) |->
                            <<StrToInt(@[1][j][2][k][1]), @[1][j][2][k][2]>>]>>])]>>]

export_config(st) == [streamdeck_ui_version |-> Some(CONFIG_FILE_VERSION), state |-> ToJson(st)]

_save_state(w) == [Call(w, <<"_save_state">>) EXCEPT !.state_file = Some(export_config(w.state))]

\* config.get("streamdeck_ui_version", 0)
FileVersion(config) == IF config.streamdeck_ui_version = None THEN 0 ELSE config.streamdeck_ui_version[1]

\* _open_config without the version check of api.py:71
_open_config_unchecked(w, config) == [w EXCEPT !.state = FromJson(config.state)]

_open_config(w, config) ==
  IF FileVersion(config) # CONFIG_FILE_VERSION
    THEN [w EXCEPT !.res = "raised"]
    ELSE [w EXCEPT !.state = FromJson(config.state)]

import_config(w, config) == Then(Then(_open_config(w, config), render), _save_state)

-----------------------------------------------------------------------------
(* Configuration store: mutators *)

PopCache(w, d, p, b) ==
  IF <<d, p, b>> \in AllKeys
    THEN [w EXCEPT !.image_cache[<<d, p, b>>] = None, !.pushed[<<d, p, b>>] = 0]
    ELSE w

\* set_button_text without the image_cache.pop of api.py:152
set_button_text_without_pop(w, d, p, b, text) ==
  Then(Then([w EXCEPT !.state = SetField(@, d, p, b, "text", text)], render), _save_state)

set_button_text(w, d, p, b, text) ==
  Then(Then(PopCache([w EXCEPT !.state = SetField(@, d, p, b, "text", text)], d, p, b), render), _save_state)

set_button_icon(w, d, p, b, icon) ==
  Then(Then(PopCache([w EXCEPT !.state = SetField(@, d, p, b, "icon", icon)], d, p, b), render), _save_state)

set_button_change_brightness(w, d, p, b, amount) ==
  Then(Then([w EXCEPT !.state = SetField(@, d, p, b, "brightness_change", amount)], render), _save_state)

set_button_command(w, d, p, b, command) ==
  _save_state([w EXCEPT !.state = SetField(@, d, p, b, "command", command)])

set_button_switch_page(w, d, p, b, switch_page) ==
  _save_state([w EXCEPT !.state = SetField(@, d, p, b, "switch_page", switch_page)])

set_button_keys(w, d, p, b, keys) ==
  _save_state([w EXCEPT !.state = SetField(@, d, p, b, "keys", keys)])

set_button_write(w, d, p, b, write) ==
  _save_state([w EXCEPT !.state = SetField(@, d, p, b, "write", write)])

\* decks[deck_id] raises KeyError for a serial that is not registered;
\* deck.set_brightness raises like any write to the device (hwfail: the
\* transport fails during this call).
set_brightness(w, d, brightness, hwfail) ==
  IF ~DHas(w.decks, d) THEN [w EXCEPT !.res = "raised"]
  ELSE LET w1 == Call(w, <<"set_brightness", d, brightness>>) IN
       IF WriteRaises(w.decks, d, IF hwfail THEN d ELSE "none")
         THEN [w1 EXCEPT !.res = "raised"]
         ELSE _save_state([w1 EXCEPT !.state = SetDeckField(@, d, "brightness", brightness)])

\* change_brightness without the max(..., 0) of api.py:245
change_brightness_without_floor(w, d, amount, hwfail) ==
  set_brightness(w, d, Min(get_brightness(w.state, d) + amount, 100), hwfail)

change_brightness(w, d, amount, hwfail) ==
  set_brightness(w, d, Max(Min(get_brightness(w.state, d) + amount, 100), 0), hwfail)

set_page(w, d, page) ==
  Then(Then([w EXCEPT !.state = SetDeckField(@, d, "page", page)], render), _save_state)

-----------------------------------------------------------------------------
(* Key event dispatcher *)

\* One external action of a key press: the call is made, and raises when it
\* is the one that fails in this event.
Act(w, c, fails) == IF c[1] = fails THEN [Call(w, c) EXCEPT !.res = "raised"] ELSE Call(w, c)

\* _key_change_callback(deck_id, _deck, key, state).  `fails` names the
\* external call that raises in this event if it is made: "Popen", "keys"
\* (keyboard.press/release), "type" (keyboard.type), "set_brightness", or
\* "none".  The press/release sequence of a keys string is one call here.
_key_change_callback(w, d, key, pressed, fails) ==
  IF ~pressed THEN w
  ELSE LET page == get_page(w.state, d)
           \* get_button_command is the first getter: _button_state creates the entry
           s == Settings(_button_state(w.state, d, page, key), d, page, key)
           command == Field(s, "command", "")
           keys == Field(s, "keys", "")
           write == Field(s, "write", "")
           brightness_change == Field(s, "brightness_change", 0)
           switch_page == Field(s, "switch_page", 0)
       IN When(switch_page # 0,
            When(brightness_change # 0,
              When(write # "",
                When(keys # "",
                  When(command # "",
                    [w EXCEPT !.state = _button_state(@, d, page, key)],
                    LAMBDA v : Act(v, <<"Popen", command>>, fails)),
                  LAMBDA v : Act(v, <<"keys", keys>>, fails)),
                LAMBDA v : Act(v, <<"type", write>>, fails)),
              LAMBDA v : change_brightness(Call(v, <<"change_brightness", d, brightness_change>>),
                                           d, brightness_change, fails = "set_brightness")),
            LAMBDA v : set_page(Call(v, <<"set_page", d, switch_page - 1>>), d, switch_page - 1))

-----------------------------------------------------------------------------
(* Device registry *)

\* A handle: the gen-th StreamDeck object made for its serial, whether it
\* still has its device, and whether its reader thread can deliver events.
Handle(gen) == [gen |-> gen, connected |-> TRUE, cb |-> "ready"]

\* open_decks(): `order` is the list enumerate() returns
RECURSIVE OpenScan(_, _, _)
OpenScan(order, i, w) ==
  IF i > Len(order) THEN w
  ELSE LET d == order[i]
           gen == DGet(w.decks, d, [gen |-> 0]).gen + 1
           w1 == Call(Call(Call(w, <<"open", d, gen>>), <<"reset", d, gen>>),
                      <<"set_key_callback", d, gen>>)
       IN OpenScan(order, i + 1, [w1 EXCEPT !.decks = DPut(@, d, Handle(gen))])

open_decks(w, order) == OpenScan(order, 1, w)

\* ensure_decks_connected() from entry i of decks.copy() on.  `att` are the
\* serials enumerate() yields, probeFail those whose open() or
\* get_serial_number() raises (new_deck_serial = None).  Serials are unique,
\* so at most one candidate matches.
RECURSIVE EnsureScan(_, _, _, _, _)
EnsureScan(snapshot, i, w, att, probeFail) ==
  IF i > Len(snapshot) \/ w.res # "ok" THEN w
  ELSE LET d == snapshot[i][1]
           old == snapshot[i][2]
           gen == old.gen + 1
       IN IF old.connected \/ d \notin att \/ d \in probeFail
            THEN EnsureScan(snapshot, i + 1, w, att, probeFail)
            ELSE LET w1 == Call(Call(Call(w, <<"close", d, old.gen>>), <<"reset", d, gen>>),
                                <<"set_key_callback", d, gen>>)
                 IN EnsureScan(snapshot, i + 1,
                               render([w1 EXCEPT !.decks = DPut(@, d, Handle(gen))]),
                               att, probeFail)

\* ensure_decks_connected taking the serial of a candidate without the
\* try/except of api.py:124-129 deciding it
ensure_decks_connected_any_probe(w, att, probeFail) == EnsureScan(w.decks, 1, w, att, {})

ensure_decks_connected(w, att, probeFail) == EnsureScan(w.decks, 1, w, att, probeFail)

-----------------------------------------------------------------------------
(* Inputs *)

TickMs == 10

Texts == {"T"}
Icons == {"pages.tif", "fast.gif", "missing.png"}
Commands == {"run"}
KeyStrings == {"ctrl+c"}
Writes == {"w"}
BrightnessChanges == {-60}
SwitchPages == {2}
Brightnesses == {5}
Failures == {"none", "Popen", "keys", "type", "set_brightness"}
\* Amounts change_brightness is called with
Amounts == {-250, -20, -1, 0, 1, 20, 250}

\* State files as the program wrote them earlier.  IconsFile: a still
\* image, an animation and a second device.  ActionsFile: a button with
\* every action set, one with two, and a second page.
IconsFile ==
  [streamdeck_ui_version |-> Some(1),
   state |->
     << <<"d1", [page |-> Some(0), brightness |-> None, buttons |-> Some(<<
           <<"0", << <<"0", [NoSettings EXCEPT !.icon = Some("pages.tif")]>>,
                     <<"1", [NoSettings EXCEPT !.icon = Some("fast.gif"), !.text = Some("T")]>> >> >> >>)]>>,
        <<"d2", [page |-> None, brightness |-> None, buttons |-> Some(<<
           <<"0", << <<"0", [NoSettings EXCEPT !.icon = Some("pages.tif")]>> >> >> >>)]>> >>]
ActionsFile ==
  [streamdeck_ui_version |-> Some(1),
   state |->
     << <<"d1", [page |-> Some(0), brightness |-> Some(100), buttons |-> Some(<<
           <<"0", << <<"0", [NoSettings EXCEPT !.command = Some("run"), !.keys = Some("ctrl+c"),
                                               !.write = Some("w"), !.brightness_change = Some(-60),
                                               !.switch_page = Some(2)]>>,
                     <<"1", [NoSettings EXCEPT !.command = Some("run"), !.write = Some("w")]>> >> >>,
           <<"1", << <<"0", [NoSettings EXCEPT !.text = Some("T")]>> >> >> >>)]>> >>]
StateFiles == {IconsFile, ActionsFile}

\* A state file with one animated button: 5 frames of 100 ms
AnimFile ==
  [streamdeck_ui_version |-> Some(1),
   state |->
     << <<"d1", [page |-> Some(0), brightness |-> None, buttons |-> Some(<<
           <<"0", << <<"0", [NoSettings EXCEPT !.icon = Some("anim.gif")]>> >> >> >>)]>> >>]
AnimKey == <<"d1", 0, 0>>

\* Files offered to import_config: one of the current version, one of another
\* version, one with no version tag
NewFile ==
  [streamdeck_ui_version |-> Some(1),
   state |->
     << <<"d1", [page |-> None, brightness |-> None, buttons |-> Some(<<
           <<"0", << <<"0", [NoSettings EXCEPT !.icon = Some("fast.gif"), !.text = Some("N")]>> >> >> >>)]>> >>]
OtherVersionFile == [NewFile EXCEPT !.streamdeck_ui_version = Some(2)]
NoVersionFile == [NewFile EXCEPT !.streamdeck_ui_version = None]
ImportFiles == {NewFile, OtherVersionFile, NoVersionFile}

\* DeviceManager().enumerate(): the attached devices, in the order of the bus
BusOrder == <<"d1", "d2">>
Enumerate(att) == SelectSeq(BusOrder, LAMBDA d : d \in att)

-----------------------------------------------------------------------------
(* The state machine *)

\* The threads of the program: render_thread, the caller of the API, and
\* the reader thread that delivers the key events of d1.  A thread is idle,
\* or inside a handler at `pc`, with the rest of its scan in `todo`, the
\* value it has read in `loc` and the call it is serving in `call`.
Threads == {"ticker", "fg", "cb"}
Idle == [pc |-> "idle", todo |-> << >>, loc |-> None, call |-> << >>]

World == [state |-> state, decks |-> decks, image_cache |-> image_cache, lock |-> lock,
          state_file |-> state_file, pushed |-> pushed, calls |-> << >>, res |-> "ok"]

Commit(w) ==
  /\ state' = w.state
  /\ image_cache' = w.image_cache
  /\ lock' = w.lock
  /\ state_file' = w.state_file
  /\ pushed' = w.pushed

Done(name, w) == [name |-> name, calls |-> w.calls, res |-> w.res]

\* A call made by the foreground thread, which stays in render() forever
\* when the lock is held
FgCall(name, w) ==
  /\ fg = "ready"
  /\ Commit(w)
  /\ decks' = w.decks
  /\ op' = Done(name, w)
  /\ fg' = IF w.res = "blocked" THEN "blocked" ELSE "ready"
  /\ UNCHANGED <<now, attached, ticker, thr>>

FgEdit(name, w) ==
  /\ edits < MaxEdits
  /\ edits' = edits + 1
  /\ FgCall(name, w)

\* api.py:388-389: the module loads STATE_FILE when it exists
InitWith(files) ==
  /\ state_file \in files
  /\ state = IF state_file = None THEN << >> ELSE _open_config([state |-> << >>, res |-> "ok"], state_file[1]).state
  /\ decks = << >>
  /\ image_cache = [k \in AllKeys |-> None]
  /\ lock = "free"
  /\ now = 0
  /\ attached = Serials
  /\ ticker = "run"
  /\ fg = "ready"
  /\ pushed = [k \in AllKeys |-> 0]
  /\ op = [name |-> "init", calls |-> << >>, res |-> "ok"]
  /\ edits = 0
  /\ thr = [t \in Threads |-> Idle]

Init == InitWith({None} \cup {Some(f) : f \in StateFiles})

SetButtonText(slot, v) ==
  FgEdit("set_button_text", set_button_text(World, slot[1], slot[2], slot[3], v))

SetButtonIcon(slot, v) ==
  FgEdit("set_button_icon", set_button_icon(World, slot[1], slot[2], slot[3], v))

SetButtonChangeBrightness(slot, v) ==
  FgEdit("set_button_change_brightness", set_button_change_brightness(World, slot[1], slot[2], slot[3], v))

SetButtonCommand(slot, v) ==
  FgEdit("set_button_command", set_button_command(World, slot[1], slot[2], slot[3], v))

SetButtonSwitchPage(slot, v) ==
  FgEdit("set_button_switch_page", set_button_switch_page(World, slot[1], slot[2], slot[3], v))

SetButtonKeys(slot, v) ==
  FgEdit("set_button_keys", set_button_keys(World, slot[1], slot[2], slot[3], v))

SetButtonWrite(slot, v) ==
  FgEdit("set_button_write", set_button_write(World, slot[1], slot[2], slot[3], v))

SetBrightness(d, v, hwfail) ==
  FgEdit("set_brightness", set_brightness(World, d, v, hwfail))

SetPage(d, p) ==
  FgEdit("set_page", set_page(World, d, p))

ImportConfig(config) ==
  FgEdit("import_config", import_config(World, config))

\* change_brightness called by the foreground thread
ChangeBrightness(d, amount, hwfail) ==
  /\ FgCall("change_brightness",
            change_brightness(Call(World, <<"change_brightness", d, amount>>), d, amount, hwfail))
  /\ UNCHANGED edits

\* get_button_<field>(deck_id, page, button): _button_state, then .get
GetterName(field) ==
  CASE field = "text" -> "get_button_text"
    [] field = "icon" -> "get_button_icon"
    [] field = "command" -> "get_button_command"
    [] field = "keys" -> "get_button_keys"
    [] field = "write" -> "get_button_write"
    [] field = "brightness_change" -> "get_button_change_brightness"
    [] field = "switch_page" -> "get_button_switch_page"
GetButton(slot, field) ==
  /\ FgCall(GetterName(field),
            [Call(World, <<"return", get_button(state, slot, field)>>)
               EXCEPT !.state = _button_state(state, slot[1], slot[2], slot[3])])
  /\ UNCHANGED edits

GetPage(d) ==
  /\ FgCall("get_page", Call(World, <<"return", get_page(state, d)>>))
  /\ UNCHANGED edits

GetBrightness(d) ==
  /\ FgCall("get_brightness", Call(World, <<"return", get_brightness(state, d)>>))
  /\ UNCHANGED edits

Render ==
  /\ FgCall("render", render(World))
  /\ UNCHANGED edits

OpenDecks ==
  /\ decks = << >>
  /\ FgCall("open_decks", open_decks(World, Enumerate(attached)))
  /\ UNCHANGED edits

EnsureDecksConnected(probeFail) ==
  /\ FgCall("ensure_decks_connected", ensure_decks_connected(World, attached, probeFail))
  /\ UNCHANGED edits

\* A key event delivered by the reader thread of a registered handle.  The
\* thread stays in render() forever when the lock is held.
KeyChange(d, key, pressed, fails) ==
  /\ DHas(decks, d)
  /\ ~pressed => fails = "none"
  /\ DGet(decks, d, Handle(0)).connected
  /\ DGet(decks, d, Handle(0)).cb = "ready"
  /\ LET w == _key_change_callback(World, d, key, pressed, fails) IN
       /\ fails # "none" => w.res = "raised"
       /\ Commit(w)
       /\ decks' = IF w.res = "blocked"
                     THEN DPut(w.decks, d, [DGet(w.decks, d, Handle(0)) EXCEPT !.cb = "blocked"])
                     ELSE w.decks
       /\ op' = Done("_key_change_callback", w)
  /\ UNCHANGED <<now, attached, ticker, fg, edits, thr>>

\* One iteration of render_thread, TickMs + delay after the previous one
\* (delay: what the previous iteration took) and no later than `horizon`;
\* `bad` is the device whose transport fails in it.
TickAfter(delay, horizon, bad) ==
  /\ ticker = "run"
  /\ lock = "free"
  /\ now + TickMs + delay <= horizon
  /\ now' = now + TickMs + delay
  /\ LET w == render_thread(World, now', bad) IN
       /\ Commit(w)
       /\ op' = Done("render_thread", w)
       /\ ticker' = IF w.res = "raised" THEN "dead" ELSE "run"
  /\ UNCHANGED <<decks, attached, fg, edits, thr>>

\* An iteration that follows the previous one after TickMs
TickWithin(horizon, bad) == TickAfter(0, horizon, bad)

Tick(bad) == TickWithin(MaxTicks * TickMs, bad)

Unplug(d) ==
  /\ d \in attached
  /\ DHas(decks, d) => DGet(decks, d, Handle(0)).gen < MaxGen
  /\ attached' = attached \ {d}
  /\ decks' = IF DHas(decks, d) THEN DPut(decks, d, [DGet(decks, d, Handle(0)) EXCEPT !.connected = FALSE])
              ELSE decks
  /\ op' = [name |-> "unplug", calls |-> << >>, res |-> "ok"]
  /\ UNCHANGED <<state, image_cache, lock, state_file, now, ticker, fg, pushed, edits, thr>>

Plug(d) ==
  /\ d \notin attached
  /\ attached' = attached \cup {d}
  /\ op' = [name |-> "plug", calls |-> << >>, res |-> "ok"]
  /\ UNCHANGED <<state, decks, image_cache, lock, state_file, now, ticker, fg, pushed, edits, thr>>

\* The editor: the calls that change the configuration
EditorStep ==
  \/ \E slot \in EditSlots, v \in Texts : SetButtonText(slot, v)
  \/ \E slot \in EditSlots, v \in Icons : SetButtonIcon(slot, v)
  \/ \E slot \in EditSlots, v \in BrightnessChanges : SetButtonChangeBrightness(slot, v)
  \/ \E slot \in EditSlots, v \in Commands : SetButtonCommand(slot, v)
  \/ \E slot \in EditSlots, v \in SwitchPages : SetButtonSwitchPage(slot, v)
  \/ \E slot \in EditSlots, v \in KeyStrings : SetButtonKeys(slot, v)
  \/ \E slot \in EditSlots, v \in Writes : SetButtonWrite(slot, v)
  \/ \E d \in EditDecks, v \in Brightnesses, hwfail \in BOOLEAN : SetBrightness(d, v, hwfail)
  \/ \E d \in EditDecks, p \in Pages : SetPage(d, p)
  \/ \E config \in ImportFiles : ImportConfig(config)

\* The program at work: the devices opened, the display rendered, key
\* events, the ticker
DisplayStep ==
  \/ Render
  \/ OpenDecks
  \/ \E d \in PressedDecks, key \in PressedKeys, pressed \in BOOLEAN, fails \in Failures :
       KeyChange(d, key, pressed, fails)
  \/ \E bad \in TickFaults : Tick(bad)

\* Devices leaving and joining the bus, and the reconnect
HotplugStep ==
  \/ \E probeFail \in ProbeFaults : EnsureDecksConnected(probeFail)
  \/ \E d \in Unpluggable : Unplug(d)
  \/ \E d \in Unpluggable : Plug(d)

Next ==
  \/ EditorStep
  \/ DisplayStep
  \/ HotplugStep

Spec == Init /\ [][Next]_vars

\* The program whose devices stay attached, and the program whose
\* configuration changes by its icons and pages only: every behaviour of
\* either is a behaviour of Spec.
NextEditor ==
  \/ EditorStep
  \/ DisplayStep

SpecEditor == Init /\ [][NextEditor]_vars

NextHotplug ==
  \/ \E slot \in EditSlots, v \in Icons : SetButtonIcon(slot, v)
  \/ \E d \in EditDecks, p \in Pages : SetPage(d, p)
  \/ DisplayStep
  \/ HotplugStep

SpecHotplug == Init /\ [][NextHotplug]_vars

\* The program read: the getters, key events, and the display
ReadSlots == {<<"d1", 0, 0>>, <<"d1", 0, 1>>, <<"d2", 1, 0>>}
NextReaders ==
  \/ \E slot \in ReadSlots, field \in FieldNames : GetButton(slot, field)
  \/ \E d \in Serials : GetPage(d)
  \/ \E d \in Serials : GetBrightness(d)
  \/ DisplayStep

SpecReaders == Init /\ [][NextReaders]_vars

\* The brightness of a device changed again and again, by the foreground
\* thread and by key presses
NextBrightness ==
  \/ OpenDecks
  \/ \E d \in EditDecks, amount \in Amounts, hwfail \in BOOLEAN : ChangeBrightness(d, amount, hwfail)
  \/ \E d \in PressedDecks, key \in PressedKeys, pressed \in BOOLEAN, fails \in Failures :
       KeyChange(d, key, pressed, fails)

SpecBrightness == Init /\ [][NextBrightness]_vars

-----------------------------------------------------------------------------
(* The animation run: the program started on AnimFile, the devices opened, *)
(* one render(), and then the ticker alone, every TickMs, with no fault.   *)

InitAnim == InitWith({Some(AnimFile)})

AnimRender == image_cache[AnimKey] = None /\ Render

AnimTick == image_cache[AnimKey] # None /\ TickWithin(MaxAnimTicks * TickMs, "none")

NextAnim ==
  \/ OpenDecks
  \/ AnimRender
  \/ AnimTick

SpecAnim == InitAnim /\ [][NextAnim]_vars

\* The animation run with slow iterations: once the first frame is pushed,
\* an iteration follows the previous one after TickMs or after TickMs + SlowMs
SlowMs == 50
Delays == {0, SlowMs}

DriftTick ==
  /\ image_cache[AnimKey] # None
  /\ \E delay \in Delays :
       /\ delay # 0 => pushed[AnimKey] >= 1
       /\ TickAfter(delay, MaxAnimTicks * TickMs, "none")

NextDrift ==
  \/ OpenDecks
  \/ AnimRender
  \/ DriftTick

SpecDrift == InitAnim /\ [][NextDrift]_vars

-----------------------------------------------------------------------------
(* The handlers step by step: what the threads do to the shared data      *)
(* between lock.acquire() and lock.release(), and outside the lock, one   *)
(* statement at a time.  No device fails here.                            *)

\* A state file with one device, a button on each of two pages, each
\* switching to the other page when pressed
PagesFile ==
  [streamdeck_ui_version |-> Some(1),
   state |->
     << <<"d1", [page |-> Some(0), brightness |-> None, buttons |-> Some(<<
           <<"0", << <<"0", [NoSettings EXCEPT !.text = Some("A"), !.switch_page = Some(2)]>> >> >>,
           <<"1", << <<"0", [NoSettings EXCEPT !.text = Some("B"), !.switch_page = Some(1)]>> >> >> >>)]>> >>]

\* What set_button_text and set_button_icon are called with
SlotEdits == {<<"text", "T">>, <<"icon", "pages.tif">>, <<"icon", "missing.png">>}

InitThreads == InitWith({Some(PagesFile)})

\* Thread t has dealt with the first button of its scan: on to the next
\* one (at `again`), or to lock.release()
Advance(t, again) ==
  [thr[t] EXCEPT !.todo = Tail(@), !.loc = None,
                 !.pc = IF Len(thr[t].todo) > 1 THEN again ELSE "release"]

\* api.py:279-292: current_time, lock.acquire(), the page of the device
\* and the buttons of that page
TStart ==
  /\ thr["ticker"].pc = "idle"
  /\ lock = "free"
  /\ now + TickMs <= MaxTicks * TickMs
  /\ now' = now + TickMs
  /\ lock' = "ticker"
  /\ LET keys == ScanKeys(state, decks, 1) IN
       thr' = [thr EXCEPT !["ticker"] =
                 [Idle EXCEPT !.todo = keys, !.pc = IF keys = << >> THEN "release" ELSE "test"]]
  /\ UNCHANGED <<state, decks, image_cache, state_file, attached, ticker, fg, pushed, op, edits>>

\* api.py:294: if key in image_cache
TTest ==
  /\ thr["ticker"].pc = "test"
  /\ thr' = [thr EXCEPT !["ticker"] =
               IF image_cache[Head(thr["ticker"].todo)] # None
                 THEN [@ EXCEPT !.pc = "read"]
                 ELSE Advance("ticker", "test")]
  /\ UNCHANGED <<state, decks, image_cache, lock, state_file, now, attached, ticker, fg, pushed,
                 op, edits>>

\* api.py:295: image, fps, next_time, frame = image_cache[key], a KeyError
\* when the entry is no longer there
TRead ==
  /\ thr["ticker"].pc = "read"
  /\ LET k == Head(thr["ticker"].todo) IN
       IF image_cache[k] = None
         THEN /\ thr' = [thr EXCEPT !["ticker"].pc = "dead"]
              /\ ticker' = "dead"
              /\ op' = [name |-> "render_thread", calls |-> << >>, res |-> "raised"]
         ELSE /\ thr' = [thr EXCEPT !["ticker"].loc = image_cache[k], !["ticker"].pc = "draw"]
              /\ UNCHANGED <<ticker, op>>
  /\ UNCHANGED <<state, decks, image_cache, lock, state_file, now, attached, fg, pushed, edits>>

\* api.py:297-306: the entry written back advanced and the frame pushed,
\* when the entry read is due
TDraw ==
  /\ thr["ticker"].pc = "draw"
  /\ LET k == Head(thr["ticker"].todo)
         e == thr["ticker"].loc[1]
     IN IF Due(e, now)
          THEN /\ image_cache' = [image_cache EXCEPT ![k] = Some(AdvanceEntry(e, now))]
               /\ pushed' = [pushed EXCEPT ![k] = @ + 1]
               /\ op' = [name |-> "render_thread",
                         calls |-> << <<"set_key_image", k[1], k[3], e.image[e.frame + 1]>> >>,
                         res |-> "ok"]
          ELSE UNCHANGED <<image_cache, pushed, op>>
  /\ thr' = [thr EXCEPT !["ticker"] = Advance("ticker", "test")]
  /\ UNCHANGED <<state, decks, lock, state_file, now, attached, ticker, fg, edits>>

\* api.py:307-308
TRelease ==
  /\ thr["ticker"].pc = "release"
  /\ lock' = "free"
  /\ thr' = [thr EXCEPT !["ticker"] = Idle]
  /\ UNCHANGED <<state, decks, image_cache, state_file, now, attached, ticker, fg, pushed, op, edits>>

\* An exception leaves the handler thread t is in (and the lock as it is)
Raise(t) ==
  /\ thr' = [thr EXCEPT ![t] = Idle]
  /\ op' = [name |-> thr[t].call[1], calls |-> << >>, res |-> "raised"]

\* render(), api.py:312-321: lock.acquire(), the page of the device and the
\* buttons of that page
RAcquire(t) ==
  /\ thr[t].pc = "acquire"
  /\ lock = "free"
  /\ lock' = t
  /\ LET keys == ScanKeys(state, decks, 1) IN
       thr' = [thr EXCEPT ![t].todo = keys, ![t].pc = IF keys = << >> THEN "release" ELSE "check"]
  /\ UNCHANGED <<state, decks, image_cache, state_file, now, attached, ticker, fg, pushed, op, edits>>

\* api.py:325-326: if key not in image_cache, and the call of
\* _render_key_image with the settings the button has now
RCheck(t) ==
  /\ thr[t].pc = "check"
  /\ LET k == Head(thr[t].todo) IN
       thr' = [thr EXCEPT ![t] =
                 IF image_cache[k] = None
                   THEN [@ EXCEPT !.loc = Some(Settings(state, k[1], k[2], k[3])), !.pc = "store"]
                   ELSE [@ EXCEPT !.pc = "reread"]]
  /\ UNCHANGED <<state, decks, image_cache, lock, state_file, now, attached, ticker, fg, pushed,
                 op, edits>>

\* api.py:326-327: _render_key_image returns, or raises, and the entry is stored
RStore(t) ==
  /\ thr[t].pc = "store"
  /\ LET k == Head(thr[t].todo)
         r == _render_key_image(k[1], thr[t].loc[1])
     IN IF r.ok
          THEN /\ image_cache' = [image_cache EXCEPT ![k] =
                     Some([image |-> r.image, fps |-> r.fps, next_time |-> 0, frame |-> 0])]
               /\ pushed' = [pushed EXCEPT ![k] = 0]
               /\ thr' = [thr EXCEPT ![t] = Advance(t, "check")]
               /\ UNCHANGED op
          ELSE Raise(t) /\ UNCHANGED <<image_cache, pushed>>
  /\ UNCHANGED <<state, decks, lock, state_file, now, attached, ticker, fg, edits>>

\* api.py:329: image, fps, *rest = image_cache[key], a KeyError when the
\* entry is no longer there
RReread(t) ==
  /\ thr[t].pc = "reread"
  /\ LET k == Head(thr[t].todo) IN
       IF image_cache[k] = None
         THEN Raise(t)
         ELSE thr' = [thr EXCEPT ![t].loc = image_cache[k], ![t].pc = "reset"] /\ UNCHANGED op
  /\ UNCHANGED <<state, decks, image_cache, lock, state_file, now, attached, ticker, fg, pushed,
                 edits>>

\* api.py:330: image_cache[key] = [image, fps, 0.0, 0]
RReset(t) ==
  /\ thr[t].pc = "reset"
  /\ LET k == Head(thr[t].todo) IN
       /\ image_cache' = [image_cache EXCEPT ![k] =
                            Some([thr[t].loc[1] EXCEPT !.next_time = 0, !.frame = 0])]
       /\ pushed' = [pushed EXCEPT ![k] = 0]
  /\ thr' = [thr EXCEPT ![t] = Advance(t, "check")]
  /\ UNCHANGED <<state, decks, lock, state_file, now, attached, ticker, fg, op, edits>>

\* api.py:331: lock.release(); the caller goes on to _save_state()
RRelease(t) ==
  /\ thr[t].pc = "release"
  /\ lock' = "free"
  /\ thr' = [thr EXCEPT ![t].todo = << >>, ![t].loc = None, ![t].pc = "save"]
  /\ UNCHANGED <<state, decks, image_cache, state_file, now, attached, ticker, fg, pushed, op, edits>>

\* _save_state() as the last statement of a setter, which then returns
Save(t) ==
  /\ thr[t].pc = "save"
  /\ state_file' = Some(export_config(state))
  /\ thr' = [thr EXCEPT ![t] = Idle]
  /\ op' = [name |-> thr[t].call[1], calls |-> << <<"_save_state">> >>, res |-> "ok"]
  /\ UNCHANGED <<state, decks, image_cache, lock, now, attached, ticker, fg, pushed, edits>>

\* set_button_text / set_button_icon, api.py:151 and 164: the new value is
\* put into the tree
FSet(slot, field, v) ==
  /\ thr["fg"].pc = "idle"
  /\ edits < MaxEdits
  /\ edits' = edits + 1
  /\ state' = SetField(state, slot[1], slot[2], slot[3], field, v)
  /\ thr' = [thr EXCEPT !["fg"] =
               [Idle EXCEPT !.pc = "pop",
                            !.call = <<IF field = "text" THEN "set_button_text" ELSE "set_button_icon",
                                       slot, v>>]]
  /\ UNCHANGED <<decks, image_cache, lock, state_file, now, attached, ticker, fg, pushed, op>>

\* api.py:152 and 165: image_cache.pop(key, None); render() is next
FPop ==
  /\ thr["fg"].pc = "pop"
  /\ image_cache' = [image_cache EXCEPT ![thr["fg"].call[2]] = None]
  /\ pushed' = [pushed EXCEPT ![thr["fg"].call[2]] = 0]
  /\ thr' = [thr EXCEPT !["fg"].pc = "acquire"]
  /\ UNCHANGED <<state, decks, lock, state_file, now, attached, ticker, fg, op, edits>>

\* set_page, api.py:255; render() is next
FSetPage(d, p) ==
  /\ thr["fg"].pc = "idle"
  /\ edits < MaxEdits
  /\ edits' = edits + 1
  /\ state' = SetDeckField(state, d, "page", p)
  /\ thr' = [thr EXCEPT !["fg"] = [Idle EXCEPT !.pc = "acquire", !.call = <<"set_page", d, p>>]]
  /\ UNCHANGED <<decks, image_cache, lock, state_file, now, attached, ticker, fg, pushed, op>>

\* set_brightness on a registered device, api.py:233-234; _save_state() is next
FSetBrightness(d, v) ==
  /\ thr["fg"].pc = "idle"
  /\ DHas(decks, d)
  /\ state' = SetDeckField(state, d, "brightness", v)
  /\ thr' = [thr EXCEPT !["fg"] = [Idle EXCEPT !.pc = "save", !.call = <<"set_brightness", d, v>>]]
  /\ UNCHANGED <<decks, image_cache, lock, state_file, now, attached, ticker, fg, pushed, op, edits>>

\* _key_change_callback for a press of a button that has no action but a
\* page switch, api.py:33-58, up to the render() of set_page
KPress(d, key) ==
  /\ thr["cb"].pc = "idle"
  /\ DHas(decks, d)
  /\ LET page == get_page(state, d)
         st == _button_state(state, d, page, key)
         s == Settings(st, d, page, key)
         n == Field(s, "switch_page", 0)
     IN /\ Field(s, "command", "") = "" /\ Field(s, "keys", "") = ""
        /\ Field(s, "write", "") = "" /\ Field(s, "brightness_change", 0) = 0
        /\ state' = IF n # 0 THEN SetDeckField(st, d, "page", n - 1) ELSE st
        /\ thr' = [thr EXCEPT !["cb"] =
                     IF n # 0 THEN [Idle EXCEPT !.pc = "acquire", !.call = <<"set_page", d, n - 1>>]
                     ELSE Idle]
  /\ UNCHANGED <<decks, image_cache, lock, state_file, now, attached, ticker, fg, pushed, op, edits>>

TickerStep == TStart \/ TTest \/ TRead \/ TDraw \/ TRelease

RenderStep(t) ==
  \/ RAcquire(t) \/ RCheck(t) \/ RStore(t) \/ RReread(t) \/ RReset(t) \/ RRelease(t) \/ Save(t)

NextThreads ==
  \/ thr["fg"].pc = "idle" /\ OpenDecks
  \/ TickerStep
  \/ \E t \in {"fg", "cb"} : RenderStep(t)
  \/ \E slot \in EditSlots, e \in SlotEdits : FSet(slot, e[1], e[2])
  \/ FPop
  \/ \E d \in EditDecks, p \in Pages : FSetPage(d, p)
  \/ \E d \in EditDecks, v \in Brightnesses : FSetBrightness(d, v)
  \/ \E d \in PressedDecks, key \in PressedKeys : KPress(d, key)

SpecThreads == InitThreads /\ [][NextThreads]_vars

-----------------------------------------------------------------------------
(* Properties *)

\* The calls of a handler to one function, and its set_key_image calls for
\* the button of key k
CallsTo(calls, name) == SelectSeq(calls, LAMBDA c : c[1] = name)
KeyPushes(calls, k) ==
  SelectSeq(calls, LAMBDA c : c[1] = "set_key_image" /\ c[2] = k[1] /\ c[3] = k[3])

\* k is a button of the active page of a registered device
Shown(k) ==
  /\ DHas(decks, k[1])
  /\ DHas(state, k[1])
  /\ get_page(state, k[1]) = k[2]
  /\ DHas(DGet(ButtonsOfDeck(DGet(state, k[1], NoDeck)), k[2], << >>), k[3])

\* C1: render() and the handlers that call it never call set_key_image, and
\* every iteration of the ticker pushes each static (fps = 0) button of the
\* active page of a registered device exactly once, frame 0, when render()
\* has reset its entry since the last push (which marks the entry as
\* drawn), and not at all when the entry is marked as drawn.
C1_StaticPushedOncePerRender ==
  /\ [](op.name # "render_thread" => CallsTo(op.calls, "set_key_image") = << >>)
  /\ [][now' # now =>
          \A k \in AllKeys :
            (Shown(k) /\ image_cache[k] # None /\ image_cache[k][1].fps = 0) =>
              LET e == image_cache[k][1]
                  calls == KeyPushes(op'.calls, k)
              IN IF e.next_time = 0
                   THEN /\ Len(calls) = 1
                        /\ calls[1][4].idx = 0
                        /\ image_cache'[k][1].next_time = -1
                   ELSE calls = << >>]_vars

\* C2: in the animation run (fps = 10, 5 frames, entry reset by render() at
\* time 0, a tick every 10 ms) the ticker pushes the button at 10, 110, 210,
\* ... ms and at no other tick, the n-th push is frame (n - 1) mod 5, and
\* after 2000 ms there have been exactly 20 pushes.
C2_AnimationCadence ==
  image_cache[AnimKey] # None =>
    LET e == image_cache[AnimKey][1]
        n == pushed[AnimKey]
        calls == CallsTo(op.calls, "set_key_image")
    IN /\ e.fps = 10 /\ Len(e.image) = 5
       /\ n = IF now = 0 THEN 0 ELSE ((now - 10) \div 100) + 1
       /\ op.name = "render_thread" =>
            IF now % 100 = 10
              THEN calls = << <<"set_key_image", "d1", 0, e.image[((n - 1) % 5) + 1]>> >>
                   /\ e.image[((n - 1) % 5) + 1].idx = (n - 1) % 5
              ELSE calls = << >>
       /\ now = 2000 => n = 20

\* C2 witness: the 20th push, of frame 4, at 1910 ms
C2_TwentiethPush ==
  /\ now = 1910
  /\ pushed[AnimKey] = 20
  /\ op.name = "render_thread"
  /\ Len(op.calls) = 1
  /\ op.calls[1][4].idx = 4

\* The actions of a key press: the calls the dispatcher makes for them, and
\* the ones a button's settings configure, in the order of the dispatcher
ActionNames == {"Popen", "keys", "type", "change_brightness", "set_page"}
ActionsRun(calls) ==
  LET acts == SelectSeq(calls, LAMBDA c : c[1] \in ActionNames)
  IN [i \in 1..Len(acts) |-> acts[i][1]]
Configured(s) ==
  (IF Field(s, "command", "") # "" THEN <<"Popen">> ELSE << >>)
  \o (IF Field(s, "keys", "") # "" THEN <<"keys">> ELSE << >>)
  \o (IF Field(s, "write", "") # "" THEN <<"type">> ELSE << >>)
  \o (IF Field(s, "brightness_change", 0) # 0 THEN <<"change_brightness">> ELSE << >>)
  \o (IF Field(s, "switch_page", 0) # 0 THEN <<"set_page">> ELSE << >>)
PressedButton(d, key) == Settings(state, d, get_page(state, d), key)

\* C3: a press runs the configured actions of the button, each once, in the
\* order command, keys, write, brightness change, page switch; a release
\* runs nothing and leaves the configuration tree and the cache alone.
C3_PressRunsConfiguredActions ==
  [][\A d \in Serials, key \in PressedKeys :
       /\ \A fails \in Failures :
            KeyChange(d, key, TRUE, fails) =>
              ActionsRun(op'.calls) = Configured(PressedButton(d, key))
       /\ KeyChange(d, key, FALSE, "none") =>
            op'.calls = << >> /\ UNCHANGED <<state, image_cache>>]_vars

\* C4: in a press in which one action fails, every configured action of the
\* button is still run.
C4_FailedActionDoesNotStopLaterOnes ==
  [][\A d \in Serials, key \in PressedKeys, fails \in Failures \ {"none"} :
       KeyChange(d, key, TRUE, fails) =>
         LET want == Configured(PressedButton(d, key))
             got == ActionsRun(op'.calls)
         IN \A i \in 1..Len(want) : \E j \in 1..Len(got) : got[j] = want[i]]_vars

\* api.py:297 and 304 read off the entry: it is to be drawn at time t
ToDraw(e, t) == IF e.fps = 0 THEN e.next_time = 0 ELSE t >= e.next_time

\* C5: an iteration of the ticker, also one in which set_key_image fails for
\* a button, pushes every button that is due in it, releases the lock and
\* leaves the ticker running.
C5_WriteFailureDoesNotStopTicker ==
  [][\A bad \in TickFaults :
       Tick(bad) =>
         /\ lock' = "free"
         /\ ticker' = "run"
         /\ \A k \in AllKeys :
              (Shown(k) /\ image_cache[k] # None /\ ToDraw(image_cache[k][1], now')) =>
                Len(KeyPushes(op'.calls, k)) = 1]_vars

\* Image.open can read the icon of button k, or the button has none
IconReadable(k) ==
  LET icon == Field(Settings(state, k[1], k[2], k[3]), "icon", "")
  IN icon = "" \/ ImageInfo(icon).ok

\* C6: when a handler has run render(), the lock is free again and every
\* button of an active page of a registered device whose icon can be
\* composited has a cache entry, whether or not another button's icon
\* could be read.
C6_RenderFailureIsLocal ==
  (CallsTo(op.calls, "render") # << >> /\ op.res # "blocked") =>
    /\ lock = "free"
    /\ \A k \in AllKeys : (Shown(k) /\ IconReadable(k)) => image_cache[k] # None

\* The cache entry of button k after a step is none, or holds the frames of
\* `settings`; it is the entry of before the step, timing aside
Recomposited(k, settings) ==
  \/ image_cache'[k] = None
  \/ image_cache'[k][1].image = _render_key_image(k[1], settings).image
Kept(k) ==
  image_cache[k] # None =>
    image_cache'[k] # None /\ image_cache'[k][1].image = image_cache[k][1].image
SlotSettings(slot) == Settings(state, slot[1], slot[2], slot[3])

\* C7: set_button_text and set_button_icon leave the button with no cache
\* entry or with one composited from the settings with the new value;
\* the five other setters leave an entry the button has in place, with the
\* same frames.
C7_OnlyTextAndIconInvalidate ==
  [][\A slot \in EditSlots :
       /\ \A v \in Texts : SetButtonText(slot, v) =>
            Recomposited(slot, [SlotSettings(slot) EXCEPT !.text = Some(v)])
       /\ \A v \in Icons : SetButtonIcon(slot, v) =>
            Recomposited(slot, [SlotSettings(slot) EXCEPT !.icon = Some(v)])
       /\ \A v \in Commands : SetButtonCommand(slot, v) => Kept(slot)
       /\ \A v \in KeyStrings : SetButtonKeys(slot, v) => Kept(slot)
       /\ \A v \in Writes : SetButtonWrite(slot, v) => Kept(slot)
       /\ \A v \in SwitchPages : SetButtonSwitchPage(slot, v) => Kept(slot)
       /\ \A v \in BrightnessChanges : SetButtonChangeBrightness(slot, v) => Kept(slot)]_vars

\* C7 witness: set_button_icon has put an animation on a shown button, and
\* the entry of the button holds the three frames of the animation
C7_IconReplaced ==
  /\ op.name = "set_button_icon"
  /\ op.res = "ok"
  /\ image_cache[<<"d1", 0, 0>>] # None
  /\ image_cache[<<"d1", 0, 0>>][1].image[1].icon = "fast.gif"
  /\ Len(image_cache[<<"d1", 0, 0>>][1].image) = 3

\* C8: a press on a button with switch_page = n > 0 sets the page of the
\* device to n - 1 and runs render(), after which every button of that page
\* has a cache entry with frame 0 and due-time 0; with switch_page = 0 the
\* page stays and render() is not run.
C8_SwitchPageOnPress ==
  [][\A d \in Serials, key \in PressedKeys, fails \in Failures :
       KeyChange(d, key, TRUE, fails) =>
         LET n == Field(PressedButton(d, key), "switch_page", 0) IN
           IF n > 0
             THEN /\ get_page(state', d) = n - 1
                  /\ CallsTo(op'.calls, "render") = << <<"render">> >>
                  /\ \A k \in AllKeys :
                       (k[1] = d /\ Shown(k)') =>
                         /\ image_cache'[k] # None
                         /\ image_cache'[k][1].frame = 0
                         /\ image_cache'[k][1].next_time = 0
             ELSE /\ get_page(state', d) = get_page(state, d)
                  /\ CallsTo(op'.calls, "render") = << >>]_vars

\* The registered devices ensure_decks_connected replaces: disconnected,
\* enumerated, and answering the probe
Matched(probeFail) ==
  {d \in DKeys(decks) : /\ ~DGet(decks, d, Handle(0)).connected
                        /\ d \in attached
                        /\ d \notin probeFail}

\* C9: ensure_decks_connected replaces the handle of every disconnected
\* device that is enumerated and answers the probe by a new, connected one,
\* closes the old one, resets the new one and binds the callback to it, and
\* calls render() once for it; the handle of a device that is not
\* enumerated or whose probe raises stays the disconnected one, and when
\* no device is replaced the call makes no call at all and returns.
C9_Reconnect ==
  [][\A probeFail \in ProbeFaults :
       EnsureDecksConnected(probeFail) =>
         /\ DKeys(decks') = DKeys(decks)
         /\ \A d \in DKeys(decks) :
              LET old == DGet(decks, d, Handle(0))
                  new == DGet(decks', d, Handle(0))
              IN IF d \in Matched(probeFail)
                   THEN /\ new.gen # old.gen /\ new.connected /\ new.cb = "ready"
                        /\ CallsTo(op'.calls, "close") = << <<"close", d, old.gen>> >>
                        /\ CallsTo(op'.calls, "reset") = << <<"reset", d, new.gen>> >>
                        /\ CallsTo(op'.calls, "set_key_callback") = << <<"set_key_callback", d, new.gen>> >>
                   ELSE new = old
         /\ Len(CallsTo(op'.calls, "render")) = Cardinality(Matched(probeFail))
         /\ Matched(probeFail) = {} =>
              /\ op'.calls = << >>
              /\ op'.res = "ok"
              /\ UNCHANGED <<state, image_cache, state_file>>]_vars

\* C9 witness: ensure_decks_connected has replaced the handle of d1 after an
\* unplug and a plug, and has run render() once
C9_Reconnected ==
  /\ op.name = "ensure_decks_connected"
  /\ CallsTo(op.calls, "render") = << <<"render">> >>
  /\ CallsTo(op.calls, "close") = << <<"close", "d1", 1>> >>
  /\ DGet(decks, "d1", Handle(0)) = Handle(2)

\* C10: _open_config on a file whose version is not CONFIG_FILE_VERSION
\* raises and changes nothing, and import_config of such a file raises and
\* leaves the configuration tree, the cache and the state file as they were.
C10_VersionMismatchChangesNothing ==
  /\ [](\A config \in ImportFiles :
          FileVersion(config) # CONFIG_FILE_VERSION =>
            _open_config(World, config) = [World EXCEPT !.res = "raised"])
  /\ [][\A config \in ImportFiles :
          (FileVersion(config) # CONFIG_FILE_VERSION /\ ImportConfig(config)) =>
            /\ op'.res = "raised"
            /\ op'.calls = << >>
            /\ UNCHANGED <<state, image_cache, state_file>>]_vars

\* C10 witness: an import has failed in a program that has a configuration,
\* cache entries and a state file
C10_ImportRefused ==
  /\ op.name = "import_config"
  /\ op.res = "raised"
  /\ state # << >>
  /\ \E k \in AllKeys : image_cache[k] # None
  /\ state_file # None

\* min(100, max(0, b + delta))
Clamped(b, delta) == Min(100, Max(0, b + delta))

\* C11: change_brightness(device, delta) on a brightness b in [0,100] sends
\* min(100, max(0, b + delta)) to the device and to nothing else, and stores
\* it when the call returns; a key press with a brightness change does the
\* same with the amount of the button, and the stored brightness is never
\* outside [0,100].
C11_ChangeBrightnessClamps ==
  /\ [](\A d \in Serials : get_brightness(state, d) \in 0..100)
  /\ [][\A d \in EditDecks, amount \in Amounts, hwfail \in BOOLEAN :
          ChangeBrightness(d, amount, hwfail) =>
            LET want == Clamped(get_brightness(state, d), amount)
                sent == CallsTo(op'.calls, "set_brightness")
            IN /\ \A i \in 1..Len(sent) : sent[i] = <<"set_brightness", d, want>>
               /\ op'.res = "ok" => Len(sent) = 1 /\ get_brightness(state', d) = want]_vars
  /\ [][\A d \in PressedDecks, key \in PressedKeys, fails \in Failures :
          KeyChange(d, key, TRUE, fails) =>
            LET amount == Field(PressedButton(d, key), "brightness_change", 0)
                want == Clamped(get_brightness(state, d), amount)
                sent == CallsTo(op'.calls, "set_brightness")
            IN /\ \A i \in 1..Len(sent) : sent[i] = <<"set_brightness", d, want>>
               /\ (op'.res = "ok" /\ amount # 0) =>
                    Len(sent) = 1 /\ get_brightness(state', d) = want]_vars

\* C11 witness: a change by +250 has sent 100 to the device and stored it
C11_ClampedAtTop ==
  /\ op.name = "change_brightness"
  /\ op.res = "ok"
  /\ op.calls[1] = <<"change_brightness", "d1", 250>>
  /\ op.calls[2] = <<"set_brightness", "d1", 100>>
  /\ get_brightness(state, "d1") = 100

\* After a step the getter of `field` returns v for button `slot`, and every
\* other getter returns what it returned before
ButtonRoundTrip(slot, field, v) ==
  /\ get_button(state', slot, field) = v
  /\ \A k \in AllKeys, f \in FieldNames :
       (k # slot \/ f # field) => get_button(state', k, f) = get_button(state, k, f)
  /\ \A d \in Serials : /\ get_page(state', d) = get_page(state, d)
                        /\ get_brightness(state', d) = get_brightness(state, d)
ButtonsUntouched ==
  \A k \in AllKeys, f \in FieldNames : get_button(state', k, f) = get_button(state, k, f)

\* C12: after a setter called with v the getter of the same field returns
\* v, for the seven fields of a button and for the page and the brightness
\* of a device, registered or not (in calls during which no transport
\* fails), and every other getter returns what it returned before.
C12_SetThenGet ==
  [][/\ \A slot \in EditSlots :
          /\ \A v \in Texts : SetButtonText(slot, v) => ButtonRoundTrip(slot, "text", v)
          /\ \A v \in Icons : SetButtonIcon(slot, v) => ButtonRoundTrip(slot, "icon", v)
          /\ \A v \in Commands : SetButtonCommand(slot, v) => ButtonRoundTrip(slot, "command", v)
          /\ \A v \in KeyStrings : SetButtonKeys(slot, v) => ButtonRoundTrip(slot, "keys", v)
          /\ \A v \in Writes : SetButtonWrite(slot, v) => ButtonRoundTrip(slot, "write", v)
          /\ \A v \in SwitchPages :
               SetButtonSwitchPage(slot, v) => ButtonRoundTrip(slot, "switch_page", v)
          /\ \A v \in BrightnessChanges :
               SetButtonChangeBrightness(slot, v) => ButtonRoundTrip(slot, "brightness_change", v)
     /\ \A d \in EditDecks, p \in Pages :
          SetPage(d, p) =>
            /\ get_page(state', d) = p
            /\ ButtonsUntouched
            /\ \A e \in Serials : /\ e # d => get_page(state', e) = get_page(state, e)
                                  /\ get_brightness(state', e) = get_brightness(state, e)
     /\ \A d \in EditDecks, v \in Brightnesses :
          SetBrightness(d, v, FALSE) =>
            /\ get_brightness(state', d) = v
            /\ ButtonsUntouched
            /\ \A e \in Serials : /\ e # d => get_brightness(state', e) = get_brightness(state, e)
                                  /\ get_page(state', e) = get_page(state, e)]_vars

\* The state file holds the serialisation of the in-memory tree (no file
\* and an empty tree: nothing to persist yet)
Persisted ==
  \/ state_file = Some(export_config(state))
  \/ state_file = None /\ state = << >>

\* The mutating accessors, and a full persist as the last thing a step did
MutatingAccessors ==
  {"set_button_text", "set_button_icon", "set_button_change_brightness", "set_button_command",
   "set_button_switch_page", "set_button_keys", "set_button_write", "set_brightness",
   "set_page", "import_config"}
SavedLast ==
  /\ op'.calls # << >>
  /\ op'.calls[Len(op'.calls)] = <<"_save_state">>
  /\ state_file' = Some(export_config(state'))

\* C13: a mutating accessor that returns has persisted the whole tree as
\* its last step, and every operation that completes in a state where the
\* persisted tree equals the in-memory tree leaves them equal, so that
\* they are equal after any sequence of completed operations.
C13_PersistedEqualsMemory ==
  /\ [][(op'.name \in MutatingAccessors /\ op'.res = "ok") => SavedLast]_vars
  /\ [][(Persisted /\ op'.res = "ok") => Persisted']_vars

\* k is a button of the page that is active on its device
OnActivePage(k) ==
  /\ get_page(state, k[1]) = k[2]
  /\ DHas(DGet(ButtonsOfDeck(DGet(state, k[1], NoDeck)), k[2], << >>), k[3])

\* C14: a button has a cache entry only if it is on the active page of its
\* device; a handler that has run render() to its end leaves an entry for
\* every button of an active page of a registered device; and an entry of a
\* button that stays on the active page goes away only by the invalidation
\* of set_button_text or set_button_icon.
C14_CacheIsActivePageRendered ==
  /\ [](\A k \in AllKeys : image_cache[k] # None => OnActivePage(k))
  /\ []((CallsTo(op.calls, "render") # << >> /\ op.res = "ok") =>
          \A k \in AllKeys : Shown(k) => image_cache[k] # None)
  /\ [][\A k \in AllKeys :
          (image_cache[k] # None /\ OnActivePage(k)' /\ image_cache'[k] = None) =>
            op'.name \in {"set_button_text", "set_button_icon"}]_vars

\* Thread t is between lock.acquire() and lock.release() of render_thread
\* or of render()
InLoop(t) ==
  thr[t].pc \in {"test", "read", "draw", "check", "store", "reread", "reset", "release"}

\* C15: no two threads are inside the scan of render_thread or of render()
\* at once, and a thread inside holds the lock; the entry an iteration of
\* the ticker has read is not rewritten by render() before the ticker has
\* dealt with it, and an entry that is marked for a fresh start is at frame
\* 0; a thread that persists the store does not hold the lock.
C15_ScansExcludeEachOther ==
  /\ \A t \in Threads, u \in Threads : (InLoop(t) /\ InLoop(u)) => t = u
  /\ \A t \in Threads : InLoop(t) => lock = t
  /\ thr["ticker"].pc = "draw" =>
       LET k == Head(thr["ticker"].todo)
           e == thr["ticker"].loc[1]
       IN /\ image_cache[k] \in {None, Some(e)}
          /\ e.next_time = 0 => e.frame = 0
  /\ \A t \in Threads : thr[t].pc = "save" => lock # t

\* C16: when the ticker pushes a frame for button k, k is a button of the
\* page that is active, at that moment, on a registered device; a button
\* the ticker finds without a cache entry is passed over without a push.
C16_PushesAreForTheActivePage ==
  [][/\ TDraw => \A k \in AllKeys : pushed'[k] # pushed[k] => Shown(k)
     /\ (TTest /\ image_cache[Head(thr["ticker"].todo)] = None) =>
          /\ pushed' = pushed
          /\ thr'["ticker"].todo = Tail(thr["ticker"].todo)]_vars

\* C17: in the animation run with slow iterations (period 1000/f = 100 ms,
\* first push at TickMs), the push that follows k earlier pushes, made by an
\* iteration that is itself on time, happens no later than k periods plus
\* one tick period after the first push, however the iterations before it
\* were delayed.
C17_NoDriftAcrossSlowTicks ==
  [][(/\ image_cache[AnimKey] # None
      /\ pushed[AnimKey] >= 1
      /\ pushed'[AnimKey] = pushed[AnimKey] + 1
      /\ now' = now + TickMs) =>
        now' <= TickMs + pushed[AnimKey] * (1000 \div image_cache[AnimKey][1].fps) + TickMs]_vars

\* The last handler was an import_config that returned
Imported == op.name = "import_config" /\ op.res = "ok"

\* C18: after an import_config that returned, every button of an active
\* page of a registered device has a cache entry whose frames are
\* composited from the icon and text the imported tree gives it, and the
\* frames the next iteration of the ticker pushes are frames of the
\* imported icon and text.
C18_ImportRecomposites ==
  /\ [](Imported =>
          \A k \in AllKeys :
            Shown(k) =>
              /\ image_cache[k] # None
              /\ image_cache[k][1].image =
                   _render_key_image(k[1], Settings(state, k[1], k[2], k[3])).image)
  /\ [][(Imported /\ now' # now) =>
          \A i \in 1..Len(op'.calls) :
            LET c == op'.calls[i]
                s == Settings(state, c[2], get_page(state, c[2]), c[3])
            IN c[1] = "set_key_image" =>
                 /\ c[4].icon = Field(s, "icon", "")
                 /\ c[4].text = Field(s, "text", "")]_vars

\* C19: whatever the other threads do in between, when set_button_text or
\* set_button_icon returns, the button has no cache entry or one composited
\* from its settings with the new value; and the ticker is never stopped by
\* an entry that went away between its test and its read.
C19_SetterWinsOverConcurrentRender ==
  /\ [][(Save("fg") /\ thr["fg"].call[1] \in {"set_button_text", "set_button_icon"}) =>
          LET slot == thr["fg"].call[2]
          IN Recomposited(slot, Settings(state', slot[1], slot[2], slot[3]))]_vars
  /\ [](ticker = "run")

\* A step leaves the tree as it is, and with it what render() and
\* render_thread iterate over and whether the state file matches the tree
TreeUntouched ==
  /\ state' = state
  /\ ScanKeys(state', decks', 1) = ScanKeys(state, decks, 1)
  /\ Persisted => Persisted'

\* C20: the getters of a button, get_page and get_brightness, and a key
\* press on a button with no action configured, add nothing to the tree:
\* render() and the ticker iterate over the same buttons afterwards, and a
\* state file that matched the tree still matches it.
C20_ReadersLeaveTreeAlone ==
  [][/\ \A slot \in ReadSlots, field \in FieldNames : GetButton(slot, field) => TreeUntouched
     /\ \A d \in Serials : (GetPage(d) \/ GetBrightness(d)) => TreeUntouched
     /\ \A d \in PressedDecks, key \in PressedKeys :
          (KeyChange(d, key, TRUE, "none") /\ Configured(PressedButton(d, key)) = << >>) =>
            TreeUntouched]_vars

====
